---- MODULE Spec2Model ----
(***************************************************************************)
(* Model of custom_components/google_vision/sensor.py: the Gvision sensor  *)
(* entity (constructor, async_added_to_hass, async_update, process_image)  *)
(* and the token scan inside process_image.                                *)
(*                                                                         *)
(* Text is a sequence of characters.  The alphabet has one character of    *)
(* each class the code distinguishes: ASCII digits "0" and "1", the        *)
(* letters "k" and "K", the punctuation "-", and "sup2", the superscript   *)
(* two: str.isnumeric() accepts it, float() and the class [0-9] do not.    *)
(* An optional float is a record: None, or Float(num, scale) for the       *)
(* value num / 10^scale.                                                   *)
(*                                                                         *)
(* A text annotation is modelled by its description.  The annotations of   *)
(* a response carry a bounding polygon, so as objects they are truthy:     *)
(* `and prev_obj` and `if keyword_obj` test only for None.  A scan that    *)
(* raises (TypeError from startswith(None), ValueError from float) ends    *)
(* in pc = "raised".  dt_util.now() is read as the number of the update,   *)
(* so every update has its own timestamp.                                  *)
(***************************************************************************)
EXTENDS Integers, Sequences, FiniteSets, TLC

\* Longest OCR response (number of text annotations) the model draws.
MaxTokens == 3
\* Number of async_update calls the model follows.
MaxUpdates == 2

VARIABLES
    keyword,            \* self._keyword
    keyword_pos,        \* self._keyword_pos
    expected_digits,    \* self._expected_digits
    decimals,           \* self._decimals
    state,              \* self._state
    attr_native_value,  \* self._attr_native_value
    last_detection,     \* self._last_detection (= self._attr_last_detection)
    updates,            \* async_update calls so far; also the clock of dt_util.now()
    pc,                 \* position of the entity's handlers
    objects,            \* response.text_annotations of the running scan
    i,                  \* number of annotations the for loop has consumed
    index,              \* local index of process_image
    keyword_obj,        \* local keyword_obj: position in objects, 0 for None
    prev_obj            \* local prev_obj: position in objects, 0 for None

vars == <<keyword, keyword_pos, expected_digits, decimals, state,
          attr_native_value, last_detection, updates, pc, objects, i, index,
          keyword_obj, prev_obj>>

config == <<keyword, keyword_pos, expected_digits, decimals>>
locals == <<objects, i, index, keyword_obj, prev_obj>>

----------------------------------------------------------------------------
\* Values

None == [some |-> FALSE, num |-> 0, scale |-> 0]

RECURSIVE Float(_, _)
\* The float num / 10^scale, in lowest terms so that equal floats are equal records.
Float(num, scale) ==
    IF scale > 0 /\ num % 10 = 0
    THEN Float(num \div 10, scale - 1)
    ELSE [some |-> TRUE, num |-> num, scale |-> scale]

\* Python truthiness of an optional float: None and 0.0 are falsy.
Truthy(v) == v.some /\ v.num # 0

NoneStr == [some |-> FALSE, s |-> <<>>]
Str(s) == [some |-> TRUE, s |-> s]

\* Python truthiness of an optional str: None and "" are falsy.
TruthyStr(v) == v.some /\ Len(v.s) > 0

----------------------------------------------------------------------------
\* Text

AsciiDigits == {"0", "1"}
NumericChars == AsciiDigits \cup {"sup2"}
DecimalChars == AsciiDigits

LowerChar(c) == IF c = "K" THEN "k" ELSE c

\* str.lower()
Lower(s) == [n \in 1..Len(s) |-> LowerChar(s[n])]

\* str.startswith(prefix), prefix a str
StartsWith(s, prefix) ==
    /\ Len(prefix) <= Len(s)
    /\ \A n \in 1..Len(prefix) : s[n] = prefix[n]

IsAsciiDigit(c) == c \in AsciiDigits

\* re.sub('[^0-9]', '', s)
StripNonDigits(s) == SelectSeq(s, IsAsciiDigit)

\* str.isnumeric(): non-empty and every character numeric
IsNumeric(s) == Len(s) > 0 /\ \A n \in 1..Len(s) : s[n] \in NumericChars

\* float(s) raises ValueError unless s is a decimal number
FloatRaises(s) == Len(s) = 0 \/ \E n \in 1..Len(s) : s[n] \notin DecimalChars

DigitValue(c) == IF c = "1" THEN 1 ELSE 0

RECURSIVE IntOf(_)
\* the integer float(s) yields for a string of decimal digits
IntOf(s) ==
    IF Len(s) = 0 THEN 0
    ELSE 10 * IntOf(SubSeq(s, 1, Len(s) - 1)) + DigitValue(s[Len(s)])

----------------------------------------------------------------------------
\* Inputs

\* Descriptions of the text annotations an OCR response is made of.
Tokens ==
    { <<"K">>, <<"-">>, <<"1", "1">>, <<"0", "0">>, <<"1">>,
      <<"1", "1", "1">>, <<"k", "1", "1">>, <<"sup2", "sup2">> }

\* response.text_annotations: up to MaxTokens annotations, in reading order.
Responses == UNION {[1..n -> Tokens] : n \in 0..MaxTokens}

\* keyword_position is a plain string; PosNone stands for Python's None.
PosNone == "<None>"

KeywordArgs == {NoneStr, Str(<<>>), Str(<<"K">>)}
KeywordPosArgs == {PosNone, "", "after", "before"}
ExpectedDigitsArgs == {2}
DecimalsArgs == {0, 1}

\* What async_get_last_state / async_get_last_sensor_data hand back.
LastStates == {"none", "unavailable", "plain", "with_last_detection"}
LastSensorDatas == {None, Float(10, 0)}

\* The strftime text of dt_util.now() during update n; <<>> stands for None and
\* <<0>> for a timestamp stored before the restart.
Stamp(n) == <<n>>
NoStamp == <<>>

----------------------------------------------------------------------------
\* Gvision.__init__

InitKeyword(arg) == IF TruthyStr(arg) THEN Str(Lower(arg.s)) ELSE NoneStr

InitKeywordPos(arg) == IF arg # PosNone /\ arg # "" THEN arg ELSE PosNone

Init ==
    /\ \E arg \in KeywordArgs : keyword = InitKeyword(arg)
    /\ \E arg \in KeywordPosArgs : keyword_pos = InitKeywordPos(arg)
    /\ expected_digits \in ExpectedDigitsArgs
    /\ decimals \in DecimalsArgs
    /\ state = None
    /\ attr_native_value = None
    /\ last_detection = NoStamp
    /\ updates = 0
    /\ pc = "constructed"
    /\ objects = <<>>
    /\ i = 0
    /\ index = None
    /\ keyword_obj = 0
    /\ prev_obj = 0

----------------------------------------------------------------------------
\* Gvision.async_added_to_hass

AsyncAddedToHass ==
    /\ pc = "constructed"
    /\ \E last_state \in LastStates, last_sensor_state \in LastSensorDatas :
          IF last_state = "none" \/ ~last_sensor_state.some \/ last_state = "unavailable"
          THEN UNCHANGED <<state, attr_native_value, last_detection>>
          ELSE /\ state' = last_sensor_state
               /\ attr_native_value' = last_sensor_state
               /\ last_detection' =
                     IF last_state = "with_last_detection" THEN Stamp(0)
                     ELSE last_detection
    /\ pc' = "idle"
    /\ UNCHANGED <<config, updates, locals>>

----------------------------------------------------------------------------
\* Gvision.process_image: the body of one iteration of the for loop.  Each
\* branch yields what the iteration does: "break" with the index it computed,
\* "continue" (with the keyword_obj it leaves), or "raise".

Break(v) == [kind |-> "break", index |-> v, keyword_obj |-> keyword_obj]
Continue(k) == [kind |-> "continue", index |-> index, keyword_obj |-> k]
Raise == [kind |-> "raise", index |-> index, keyword_obj |-> keyword_obj]

\* float(value) / (10.0 ** scale)
Scaled(value, scale) ==
    IF FloatRaises(value) THEN Raise ELSE Break(Float(IntOf(value), scale))

\* lines 204-209; otherwise is what the iteration does when neither length fits
AfterValidate(value, otherwise) ==
    IF Len(value) = expected_digits THEN Scaled(value, decimals)
    ELSE IF decimals > 0 /\ Len(value) = expected_digits - 1
         THEN Scaled(value, decimals - 1)
         ELSE otherwise

\* BeforeValidate with the fallback taken whatever decimals is
BeforeValidateAnyDecimals(value, otherwise) ==
    IF Len(value) = expected_digits THEN Scaled(value, decimals)
    ELSE IF Len(value) = expected_digits - 1
         THEN Scaled(value, decimals - 1)
         ELSE otherwise

\* lines 217-222
BeforeValidate(value, otherwise) ==
    IF Len(value) = expected_digits THEN Scaled(value, decimals)
    ELSE IF decimals > 0 /\ Len(value) = expected_digits - 1
         THEN Scaled(value, decimals - 1)
         ELSE otherwise

\* ElseValidate without the one-digit-short fallback
ElseValidateExactOnly(value, otherwise) ==
    IF Len(value) = expected_digits THEN Scaled(value, decimals)
    ELSE otherwise

\* lines 230-235
ElseValidate(value, otherwise) ==
    IF Len(value) = expected_digits THEN Scaled(value, decimals)
    ELSE IF decimals > 0 /\ Len(value) = expected_digits - 1
         THEN Scaled(value, decimals - 1)
         ELSE otherwise

\* AfterBranch reading the digits of obj instead of prev_obj
AfterBranchCurrent(p) ==
    IF ~keyword.some THEN Raise
    ELSE IF StartsWith(Lower(objects[p]), keyword.s) /\ prev_obj # 0
         THEN LET value == StripNonDigits(objects[p])
              IN IF IsNumeric(value)
                 THEN AfterValidate(value, Continue(keyword_obj))
                 ELSE Continue(keyword_obj)
         ELSE Continue(keyword_obj)

\* if self._keyword_pos == "after": ...   (obj is objects[p])
AfterBranch(p) ==
    IF ~keyword.some THEN Raise     \* startswith(None): TypeError
    ELSE IF StartsWith(Lower(objects[p]), keyword.s) /\ prev_obj # 0
         THEN LET value == StripNonDigits(objects[prev_obj])
              IN IF IsNumeric(value)
                 THEN AfterValidate(value, Continue(keyword_obj))
                 ELSE Continue(keyword_obj)
         ELSE Continue(keyword_obj)

\* line 225-226: if obj.description.lower().startswith(self._keyword): keyword_obj = obj
BeforeMark(p) ==
    IF ~keyword.some THEN Raise     \* startswith(None): TypeError
    ELSE IF StartsWith(Lower(objects[p]), keyword.s)
         THEN Continue(p)
         ELSE Continue(keyword_obj)

\* BeforeBranch testing the keyword before it looks for a candidate
BeforeBranchMarkFirst(p) ==
    IF keyword_obj # 0 \/ (keyword.some /\ StartsWith(Lower(objects[p]), keyword.s))
    THEN LET value == StripNonDigits(objects[p])
         IN IF IsNumeric(value)
            THEN BeforeValidate(value, BeforeMark(p))
            ELSE BeforeMark(p)
    ELSE BeforeMark(p)

\* elif self._keyword_pos == "before": ...
BeforeBranch(p) ==
    IF keyword_obj # 0
    THEN LET value == StripNonDigits(objects[p])
         IN IF IsNumeric(value)
            THEN BeforeValidate(value, BeforeMark(p))
            ELSE BeforeMark(p)
    ELSE BeforeMark(p)

\* else: ...
ElseBranch(p) ==
    LET value == objects[p]
    IN IF IsNumeric(value)
       THEN ElseValidate(value, Continue(keyword_obj))
       ELSE Continue(keyword_obj)

LoopBody(p) ==
    IF keyword_pos = "after" THEN AfterBranch(p)
    ELSE IF keyword_pos = "before" THEN BeforeBranch(p)
    ELSE ElseBranch(p)

----------------------------------------------------------------------------
\* Gvision.async_update and Gvision.process_image

\* camera.async_get_image raises HomeAssistantError: log and return.
AsyncUpdateFetchError ==
    /\ pc = "idle"
    /\ updates < MaxUpdates
    /\ updates' = updates + 1
    /\ UNCHANGED <<config, state, attr_native_value, last_detection, pc, locals>>

\* The image arrives and process_image runs up to the for loop.
ProcessImageStart ==
    /\ pc = "idle"
    /\ updates < MaxUpdates
    /\ updates' = updates + 1
    /\ state' = None
    /\ \E response \in Responses :
          /\ objects' = response
          /\ pc' = IF ~(Len(response) > 0) THEN "done" ELSE "loop"
    /\ i' = 0
    /\ index' = None
    /\ keyword_obj' = 0
    /\ prev_obj' = 0
    /\ UNCHANGED <<config, attr_native_value, last_detection>>

\* One iteration of `for obj in objects`.
LoopStep ==
    /\ pc = "loop"
    /\ i < Len(objects)
    /\ LET r == LoopBody(i + 1)
       IN /\ index' = r.index
          /\ keyword_obj' = r.keyword_obj
          /\ prev_obj' = IF r.kind = "continue" THEN i + 1 ELSE prev_obj
          /\ i' = IF r.kind = "continue" THEN i + 1 ELSE i
          /\ pc' = IF r.kind = "continue" THEN "loop"
                   ELSE IF r.kind = "break" THEN "after_loop"
                   ELSE "raised"
    /\ UNCHANGED <<config, state, attr_native_value, last_detection, updates, objects>>

\* The for loop runs out of annotations.
LoopExhausted ==
    /\ pc = "loop"
    /\ i = Len(objects)
    /\ pc' = "after_loop"
    /\ UNCHANGED <<config, state, attr_native_value, last_detection, updates, locals>>

\* Publish stamping last_detection whether or not the scan matched
PublishStampAlways ==
    /\ pc = "after_loop"
    /\ IF ~Truthy(index)
       THEN UNCHANGED <<state, attr_native_value>>
       ELSE /\ state' = index
            /\ attr_native_value' = index
    /\ last_detection' = Stamp(updates)
    /\ pc' = "done"
    /\ UNCHANGED <<config, updates, locals>>

\* lines 239-243
Publish ==
    /\ pc = "after_loop"
    /\ IF ~Truthy(index)
       THEN UNCHANGED <<state, attr_native_value, last_detection>>
       ELSE /\ state' = index
            /\ attr_native_value' = index
            /\ last_detection' = Stamp(updates)
    /\ pc' = "done"
    /\ UNCHANGED <<config, updates, locals>>

\* process_image is over (returned, or raised through async_update); its
\* locals are gone.
Return ==
    /\ pc \in {"done", "raised"}
    /\ pc' = "idle"
    /\ objects' = <<>>
    /\ i' = 0
    /\ index' = None
    /\ keyword_obj' = 0
    /\ prev_obj' = 0
    /\ UNCHANGED <<config, state, attr_native_value, last_detection, updates>>

Next ==
    \/ AsyncAddedToHass
    \/ AsyncUpdateFetchError
    \/ ProcessImageStart
    \/ LoopStep
    \/ LoopExhausted
    \/ Publish
    \/ Return

Spec == Init /\ [][Next]_vars

----------------------------------------------------------------------------
\* Gvision.extra_state_attributes: the attribute names it returns.
extra_state_attributes ==
    IF last_detection # NoStamp THEN {"last_detection"} ELSE {}

----------------------------------------------------------------------------
\* Vocabulary of the properties

\* a non-empty string made solely of decimal digits
DigitString(s) == Len(s) > 0 /\ \A n \in 1..Len(s) : s[n] \in {"0", "1"}

\* the digit-validation rule: does digit string d match, and with what value
Passes(d) ==
    /\ DigitString(d)
    /\ \/ Len(d) = expected_digits
       \/ Len(d) = expected_digits - 1 /\ decimals > 0

RuleValue(d) ==
    IF Len(d) = expected_digits
    THEN Float(IntOf(d), decimals)
    ELSE Float(IntOf(d), decimals - 1)

\* the token at position p starts with the keyword, case-insensitively
KeywordPrefixed(p) == keyword.some /\ StartsWith(Lower(objects[p]), keyword.s)

Positions == 1..Len(objects)
KeywordPositions == {p \in Positions : KeywordPrefixed(p)}

Least(S) == CHOOSE x \in S : \A y \in S : x <= y
Greatest(S) == CHOOSE x \in S : \A y \in S : x >= y

NoKeywordMode == keyword_pos \notin {"after", "before"}
AfterMode == keyword_pos = "after"
BeforeMode == keyword_pos = "before"

\* process_image returned / ended by raising
Returned == pc = "done"
Raised == pc = "raised"

\* the position of the annotation the for loop stopped at with break
Stopped == pc \in {"after_loop", "done"} /\ index.some
StoppedAt == i + 1

----------------------------------------------------------------------------
\* C1

\* str.isnumeric() text: non-empty, numeric characters only
NumericText(s) == Len(s) > 0 /\ \A n \in 1..Len(s) : s[n] \in {"0", "1", "sup2"}

\* positions whose raw text is a pure-digit string of length exactly expected_digits
ExactTokens ==
    {p \in Positions : DigitString(objects[p]) /\ Len(objects[p]) = expected_digits}

\* positions whose raw text is numeric and has a length the rule accepts
RawMatches ==
    {p \in Positions :
        /\ NumericText(objects[p])
        /\ \/ Len(objects[p]) = expected_digits
           \/ Len(objects[p]) = expected_digits - 1 /\ decimals > 0}

\* C1 as stated: in no-keyword mode, when some token is a pure-digit string of
\* length exactly expected_digits, the result is present and equals the digits
\* of the first such token divided by 10^decimals.
C1_FirstExactToken ==
    (Returned /\ NoKeywordMode /\ ExactTokens # {})
        => state = Float(IntOf(objects[Least(ExactTokens)]), decimals)

\* C1 amended: in no-keyword mode, when some token's raw text is numeric with
\* length expected_digits, or expected_digits - 1 while decimals > 0, the scan
\* stops at the first such token and that token alone decides the outcome: a
\* string of decimal digits gives its digits over 10^decimals (exact length) or
\* 10^(decimals-1) (one short), which is the result when non-zero and leaves
\* the result absent when zero; other numeric characters make the scan raise.
C1_FirstValidatingToken ==
    (NoKeywordMode /\ (Returned \/ Raised) /\ RawMatches # {})
        => LET f == Least(RawMatches)
               d == objects[f]
           IN /\ StoppedAt = f
              /\ IF DigitString(d)
                 THEN /\ Returned
                      /\ index = RuleValue(d)
                      /\ state = IF index.num # 0 THEN index ELSE None
                 ELSE Raised

\* a one-digit-short token ahead of an exact-length token gave the result
C1_ShortTokenFirst ==
    /\ Returned /\ NoKeywordMode
    /\ Len(objects) >= 2
    /\ 1 \in RawMatches /\ Len(objects[1]) = expected_digits - 1
    /\ 2 \in ExactTokens
    /\ state = RuleValue(objects[1])

----------------------------------------------------------------------------
\* C2

\* keyword-prefixed positions with a preceding token whose stripped digits
\* pass the digit-validation rule
Anchors ==
    {p \in KeywordPositions :
        p >= 2 /\ Passes(StripNonDigits(objects[p - 1]))}

\* C2 as stated: in After mode a present result comes from the digits of the
\* token right before the first keyword-prefixed token, and a keyword-prefixed
\* token with no token before it yields nothing.
C2_PrecedesFirstKeyword ==
    /\ (Returned /\ AfterMode /\ state.some)
          => /\ KeywordPositions # {}
             /\ LET f == Least(KeywordPositions)
                IN /\ f >= 2
                   /\ Passes(StripNonDigits(objects[f - 1]))
                   /\ state = RuleValue(StripNonDigits(objects[f - 1]))
    /\ (AfterMode /\ Stopped) => StoppedAt >= 2

\* C2 amended: in After mode a present result comes from the digits of the
\* token right before the first keyword-prefixed token that has a preceding
\* token whose stripped digits pass the digit-validation rule; the scan stops
\* at that keyword token, and a keyword-prefixed token with no token before it
\* yields nothing.
C2_PrecedesFirstAnchor ==
    /\ (Returned /\ AfterMode /\ state.some)
          => /\ Anchors # {}
             /\ StoppedAt = Least(Anchors)
             /\ state = RuleValue(StripNonDigits(objects[Least(Anchors) - 1]))
    /\ (AfterMode /\ Stopped) => StoppedAt >= 2

\* the result was anchored on a keyword occurrence later than the first
C2_LaterKeywordAnchors ==
    /\ Returned /\ AfterMode /\ state.some
    /\ Least(KeywordPositions) < StoppedAt

----------------------------------------------------------------------------
\* C3

\* keyword-prefixed positions ahead of the position the scan stopped at
KeywordsBeforeStop == {q \in KeywordPositions : q < StoppedAt}

C3_Candidate ==
    (BeforeMode /\ Stopped)
        => /\ KeywordsBeforeStop # {}
           /\ StoppedAt > Least(KeywordPositions)
           /\ Passes(StripNonDigits(objects[StoppedAt]))
           /\ index = RuleValue(StripNonDigits(objects[StoppedAt]))
           /\ \A q \in (Greatest(KeywordsBeforeStop) + 1)..(StoppedAt - 1) :
                 ~Passes(StripNonDigits(objects[q]))
           /\ (Returned /\ state.some) => state = index

C3_FlagStays ==
    (BeforeMode /\ keyword_obj # 0 /\ pc' # "idle") => keyword_obj' # 0

\* C3: in Before mode a present result comes from the first token, among those
\* after the most recent keyword-prefixed token, whose stripped digits pass the
\* digit-validation rule; no token at or before the first keyword-prefixed
\* token is a candidate; the pending-keyword flag, once set, stays set until
\* the scan is over.
C3_BeforeMode == []C3_Candidate /\ [][C3_FlagStays]_vars

\* a result found past a token that followed the keyword and did not validate
C3_SkippedThenFound ==
    /\ Returned /\ BeforeMode /\ state.some
    /\ Greatest(KeywordsBeforeStop) + 1 < StoppedAt

----------------------------------------------------------------------------
\* C4

\* the iteration about to run has a candidate for the digit-validation rule
HasCandidate ==
    /\ pc = "loop" /\ i < Len(objects)
    /\ IF AfterMode THEN KeywordPrefixed(i + 1) /\ i >= 1
       ELSE IF BeforeMode THEN keyword.some /\ \E q \in KeywordPositions : q <= i
       ELSE TRUE

Candidate ==
    IF AfterMode THEN StripNonDigits(objects[i])
    ELSE IF BeforeMode THEN StripNonDigits(objects[i + 1])
    ELSE objects[i + 1]

C4_Step ==
    (HasCandidate /\ DigitString(Candidate))
        => LET d == Candidate
           IN IF Len(d) = expected_digits
              THEN pc' = "after_loop" /\ index' = Float(IntOf(d), decimals)
              ELSE IF Len(d) = expected_digits - 1 /\ decimals > 0
                   THEN pc' = "after_loop" /\ index' = Float(IntOf(d), decimals - 1)
                   ELSE pc' = "loop" /\ index' = None

\* C4: in each of the three modes a candidate digit string of expected_digits
\* digits matches with its digits over 10^decimals, one of expected_digits - 1
\* digits matches with its digits over 10^(decimals-1) when decimals > 0, and
\* no other candidate matches.
C4_DigitValidation == [][C4_Step]_vars

\* Before mode took the one-digit-short fallback
C4_ShortMatch ==
    /\ pc = "after_loop" /\ BeforeMode /\ decimals > 0 /\ index.some
    /\ Len(StripNonDigits(objects[StoppedAt])) = expected_digits - 1

----------------------------------------------------------------------------
\* C5

\* the preconditions of the scan: a positive digit count, and a keyword
\* whenever the mode is Before or After
Preconditions ==
    /\ expected_digits >= 1
    /\ (AfterMode \/ BeforeMode) => keyword.some

C5_Scan ==
    Preconditions
        => /\ ~Raised
           /\ i <= Len(objects)
           /\ (Stopped /\ NoKeywordMode) => DigitString(objects[StoppedAt])

\* C5: under the preconditions the scan of any token sequence moves one token
\* at a time and never past the end, never raises because of the token text,
\* and takes a string as numeric only if it is a non-empty string of decimal
\* digits.
C5_TotalOnTokenText ==
    []C5_Scan /\ [][(pc = "loop" /\ pc' = "loop") => i' = i + 1]_vars

----------------------------------------------------------------------------
\* C6

\* C6: a scan that stopped on a validated candidate whose value is zero
\* publishes the result 0, not an absent result.
C6_ZeroIsPresent ==
    (Returned /\ index.some /\ index.num = 0) => state = Float(0, 0)

----------------------------------------------------------------------------
\* C7

\* After: keyword-prefixed positions whose preceding token qualifies.
\* Before: positions after a keyword-prefixed token whose own digits qualify.
Qualifying ==
    IF AfterMode THEN Anchors
    ELSE {r \in Positions :
            /\ \E q \in KeywordPositions : q < r
            /\ Passes(StripNonDigits(objects[r]))}

QualifyingValue(p) ==
    IF AfterMode THEN RuleValue(StripNonDigits(objects[p - 1]))
    ELSE RuleValue(StripNonDigits(objects[p]))

\* C7: in After and Before modes a malformed or wrong-length candidate never
\* ends the scan: with no qualifying candidate every token is examined and the
\* result is absent (in After mode a candidate is tried only where a
\* keyword-prefixed token follows it), and otherwise the first qualifying
\* candidate, however many failed ones precede it, produces the result.
C7_FailedCandidateDoesNotAbort ==
    ((AfterMode \/ BeforeMode) /\ keyword.some)
        => /\ ~Raised
           /\ Returned =>
                 IF Qualifying = {}
                 THEN state = None /\ i = Len(objects)
                 ELSE state = QualifyingValue(Least(Qualifying))

----------------------------------------------------------------------------
\* C8

\* C8: Before or After mode without a keyword behaves as if the keyword never
\* matches: no scan raises and every scan returns absent.
C8_MisuseIsNoMatch ==
    ((AfterMode \/ BeforeMode) /\ ~keyword.some)
        => /\ ~Raised
           /\ Returned => state = None

----------------------------------------------------------------------------
\* C9

C9_Scan ==
    /\ pc \in {"loop", "after_loop"} => state = None
    /\ Returned => state = index

\* the step of an async_update whose image fetch fails
FetchErrorStep == pc = "idle" /\ pc' = "idle"

\* C9: the state is absent while a scan runs, after a completed scan it is
\* that scan's extracted value if it matched and absent otherwise, and an
\* async_update whose image fetch fails leaves it as it was.
C9_StateFollowsScan == []C9_Scan /\ [][FetchErrorStep => state' = state]_vars

----------------------------------------------------------------------------
\* C10

\* the step of async_added_to_hass, which may restore both fields
RestoreStep == pc = "constructed"

\* the step in which a scan that stopped on a match publishes it
MatchStep == pc = "after_loop" /\ pc' = "done" /\ index.some

C10_Step ==
    /\ (attr_native_value' # attr_native_value \/ last_detection' # last_detection)
          => \/ RestoreStep
             \/ /\ MatchStep
                /\ attr_native_value' = index
                /\ last_detection' = Stamp(updates)
                /\ last_detection' # last_detection
    /\ (extra_state_attributes = {} /\ extra_state_attributes' # {})
          => (RestoreStep \/ MatchStep)

\* C10: apart from the restoration when the entity is added, the native value
\* and last_detection change only in the step where a scan publishes a match,
\* and then both are written; empty responses, scans without a match and
\* failed image fetches leave both alone, so last_detection becomes an exposed
\* attribute only by a match or a restoration.
C10_WrittenOnlyOnMatch == [][C10_Step]_vars

\* a value and timestamp of the first scan still stored after a second scan
\* that matched nothing
C10_KeptAcrossNoMatch ==
    /\ Returned /\ updates = 2 /\ ~index.some /\ state = None
    /\ attr_native_value.some /\ last_detection = Stamp(1)

====
